---- MODULE Spec2Model ----
(***************************************************************************)
(* fix-lint.py: a script that rewrites nine source files with regular      *)
(* expression substitutions (three passes per file, each pass reading the  *)
(* file and writing it back when it changed the text).                     *)
(*                                                                         *)
(* A text is a sequence of lexemes (identifiers, punctuation marks, a      *)
(* space, a newline); the concatenation of the lexemes is the file's text. *)
(* A regular expression of the script is a sequence of pattern elements    *)
(* over lexemes, matched the way Python's re module matches it: leftmost,  *)
(* greedy quantifiers with backtracking, non-overlapping substitutions.    *)
(***************************************************************************)
EXTENDS Integers, Sequences, FiniteSets, TLC

(***************************************************************************)
(* Lexemes                                                                 *)
(***************************************************************************)
SP == " "
NL == "\n"

\* \s of the regular expressions
WS == {SP, NL}

Punct == {"(", ")", "{", "}", "[", "]", ";", ",", ".", "=", "=>", "+"}

Words ==
    {"console", "log", "error", "warn", "info", "debug",
     "if", "shouldLog", "onClick", "then", "testNotif", "onshow", "onclick",
     "onerror", "e", "import", "from", "'lucide-react'", "'ui'", "const",
     "useState", "Tags", "Popover", "PopoverContent", "PopoverTrigger",
     "Checkbox", "Label", "isDeleting", "setIsDeleting", "isLoadingDetails",
     "setIsLoadingDetails", "X", "onTagsChange", "isLoading", "setIsLoading",
     "setPollsSinceLastActive", "pollsSinceLastActive", "1", "prev",
     "useMemo", "return", "columns", "onDelete", "sortedData", "handleDelete",
     "useEffect", "checkBotTag", "fetchTags", "a", "b", "f"}

Tokens == WS \cup Punct \cup Words

\* [^)]  [^}]  [^\]]  [^;]
NotRParen   == Tokens \ {")"}
NotRBrace   == Tokens \ {"}"}
NotRBracket == Tokens \ {"]"}
NotSemi     == Tokens \ {";"}

(***************************************************************************)
(* Pattern elements                                                        *)
(***************************************************************************)
\* a class of lexemes repeated lo..hi times, greedy (hi = -1: no limit)
Rep(s, lo, hi) == [k |-> "set", s |-> s, ts |-> <<>>, lo |-> lo, hi |-> hi]
Star(s) == Rep(s, 0, -1)
Plus(s) == Rep(s, 1, -1)
Opt(s)  == Rep(s, 0, 1)
\* a run of literal lexemes
LitRun(ts) == [k |-> "lits", s |-> {}, ts |-> ts, lo |-> 0, hi |-> 0]
Lit(t) == LitRun(<<t>>)
\* the pattern that is one run of literal lexemes
Lits(ts) == <<LitRun(ts)>>
\* ^ and $ under re.MULTILINE, and the lookahead (?=[...])
Bol == [k |-> "bol", s |-> {}, ts |-> <<>>, lo |-> 0, hi |-> 0]
Eol == [k |-> "eol", s |-> {}, ts |-> <<>>, lo |-> 0, hi |-> 0]
Look(s) == [k |-> "look", s |-> s, ts |-> <<>>, lo |-> 0, hi |-> 0]

\* the template lexeme standing for the group \1
G1 == "\\1"

(***************************************************************************)
(* re.sub                                                                  *)
(***************************************************************************)
Least(S) == CHOOSE x \in S : \A y \in S : x <= y

\* how many lexemes from pos on lie in s, at most hi
RunLen(text, pos, s, hi) ==
    IF pos > Len(text) \/ hi = 0 THEN 0
    ELSE IF text[pos] \notin s THEN 0
    ELSE LET last == IF hi < 0 \/ pos + hi - 1 > Len(text)
                     THEN Len(text) ELSE pos + hi - 1
             stops == {j \in pos..last : text[j] \notin s}
         IN  IF stops = {} THEN last + 1 - pos ELSE Least(stops) - pos

\* the literal run ts stands at pos
LitsAt(ts, text, pos) ==
    /\ pos + Len(ts) - 1 <= Len(text)
    /\ \A j \in 1..Len(ts) : text[pos + j - 1] = ts[j]

\* a zero-width assertion at pos
Holds(el, text, pos) ==
    CASE el.k = "bol"  -> pos = 1 \/ text[pos - 1] = NL
      [] el.k = "eol"  -> pos = Len(text) + 1 \/ text[pos] = NL
      [] el.k = "look" -> pos <= Len(text) /\ text[pos] \in el.s

RECURSIVE MatchFrom(_, _, _, _)
RECURSIVE TryLen(_, _, _, _, _)
\* The match of elements k.. of pat at pos: <<pos, end of k, end of k+1, ...>>
\* (each end is the position after the element), or <<>> when there is none.
MatchFrom(pat, k, text, pos) ==
    IF k > Len(pat) THEN <<pos>>
    ELSE IF pat[k].k = "set"
         THEN TryLen(pat, k, text, pos, RunLen(text, pos, pat[k].s, pat[k].hi))
         ELSE IF pat[k].k = "lits"
              THEN IF LitsAt(pat[k].ts, text, pos)
                   THEN LET r == MatchFrom(pat, k + 1, text,
                                           pos + Len(pat[k].ts))
                        IN  IF r = <<>> THEN <<>> ELSE <<pos>> \o r
                   ELSE <<>>
              ELSE IF Holds(pat[k], text, pos)
                   THEN LET r == MatchFrom(pat, k + 1, text, pos)
                        IN  IF r = <<>> THEN <<>> ELSE <<pos>> \o r
                   ELSE <<>>

\* greedy: the longest repetition first, backing off one lexeme at a time
TryLen(pat, k, text, pos, n) ==
    IF n < pat[k].lo THEN <<>>
    ELSE LET r == MatchFrom(pat, k + 1, text, pos + n)
         IN  IF r # <<>> THEN <<pos>> \o r
             ELSE TryLen(pat, k, text, pos, n - 1)

RECURSIVE Expand(_, _, _, _)
\* the replacement template with \1 filled in: grp is the element of the
\* pattern that group 1 encloses, m the match
Expand(repl, text, m, grp) ==
    LET refs == {j \in 1..Len(repl) : repl[j] = G1}
    IN  IF refs = {} THEN repl
        ELSE SubSeq(repl, 1, Least(refs) - 1)
                 \o SubSeq(text, m[grp], m[grp + 1] - 1)
                 \o Expand(SubSeq(repl, Least(refs) + 1, Len(repl)), text, m,
                           grp)

\* a match of pat at p is not ruled out by its first element alone
MayStart(pat, text, p) ==
    CASE pat[1].k = "lits" -> text[p] = pat[1].ts[1]
      [] pat[1].k = "bol"  -> p = 1 \/ text[p - 1] = NL
      [] OTHER             -> TRUE

RECURSIVE SubFrom(_, _, _, _, _)
\* the substitutions from pos on: the text up to the leftmost match at or
\* after pos, the replacement, and on from the end of the match
SubFrom(pat, grp, repl, text, pos) ==
    LET at == {p \in pos..Len(text) :
                  MayStart(pat, text, p) /\ MatchFrom(pat, 1, text, p) # <<>>}
    IN  IF at = {} THEN SubSeq(text, pos, Len(text))
        ELSE LET p == Least(at)
                 m == MatchFrom(pat, 1, text, p)
             IN  SubSeq(text, pos, p - 1) \o Expand(repl, text, m, grp)
                     \o SubFrom(pat, grp, repl, text, m[Len(m)])

\* re.sub(pat, repl, text): every non-overlapping match, leftmost first
Sub(pat, grp, repl, text) == SubFrom(pat, grp, repl, text, 1)

\* one statement  content = re.sub(pat, repl, content)
Rule(pat, grp, repl) == [pat |-> pat, grp |-> grp, repl |-> repl]
\* a substitution whose replacement is the empty string
Delete(pat) == Rule(pat, 0, <<>>)

RECURSIVE ApplyRules(_, _, _)
\* the statements rules[j], rules[j+1], ... in turn, each on the text the
\* one before it left
ApplyRules(rules, text, j) ==
    IF j > Len(rules) THEN text
    ELSE LET next == Sub(rules[j].pat, rules[j].grp, rules[j].repl, text)
         IN  IF next = text THEN ApplyRules(rules, text, j + 1)
             ELSE ApplyRules(rules, next, j + 1)

(***************************************************************************)
(* remove_console_logs: the substitutions of lines 24-39                   *)
(***************************************************************************)
\* console\.<name>\([^)]*\)
ConsoleCall(names) ==
    Lits(<<"console", ".">>) \o
    <<Rep(names, 1, 1), Lit("("), Star(NotRParen), Lit(")")>>

\* \(\)\s*=>\s*
ArrowHead == Lits(<<"(", ")">>) \o <<Star(WS), Lit("=>"), Star(WS)>>

\* testNotif\.<prop>\s*=\s*
NotifAssign(prop) ==
    Lits(<<"testNotif", ".", prop>>) \o <<Star(WS), Lit("="), Star(WS)>>

\* ^\s*console\.(log|error|warn|info)\([^)]*\);\s*$   (re.MULTILINE)
StandalonePat ==
    <<Bol, Star(WS)>> \o ConsoleCall({"log", "error", "warn", "info"}) \o
    <<Lit(";"), Star(WS), Eol>>

\* \s*if\s*\(shouldLog\(\)\)\s*{\s*console\.log\([^)]*\);\s*}
ShouldLogPat ==
    <<Star(WS), Lit("if"), Star(WS)>> \o
    Lits(<<"(", "shouldLog", "(", ")", ")">>) \o
    <<Star(WS), Lit("{"), Star(WS)>> \o ConsoleCall({"log"}) \o
    <<Lit(";"), Star(WS), Lit("}")>>

\* onClick=\{\(\)\s*=>\s*console\.log\([^)]*\)\}
OnClickPat ==
    Lits(<<"onClick", "=", "{">>) \o ArrowHead \o ConsoleCall({"log"}) \o
    <<Lit("}")>>
OnClickRepl == <<"onClick", "=", "{", "(", ")", SP, "=>", SP, "{", "}", "}">>

\* \.then\(\([^)]*\)\s*=>\s*console\.log\([^)]*\)\)
ThenPat ==
    Lits(<<".", "then", "(", "(">>) \o
    <<Star(NotRParen), Lit(")"), Star(WS), Lit("=>"), Star(WS)>> \o
    ConsoleCall({"log"}) \o <<Lit(")")>>

\* testNotif\.onshow\s*=\s*\(\)\s*=>\s*console\.log\([^)]*\);
OnShowPat ==
    NotifAssign("onshow") \o ArrowHead \o ConsoleCall({"log"}) \o <<Lit(";")>>
OnShowRepl ==
    <<"testNotif", ".", "onshow", SP, "=", SP, "(", ")", SP, "=>", SP,
      "{", "}", ";">>

\* testNotif\.onclick\s*=\s*\(\)\s*=>\s*{\s*console\.log\([^)]*\);
OnClickNotifPat ==
    NotifAssign("onclick") \o ArrowHead \o <<Lit("{"), Star(WS)>> \o
    ConsoleCall({"log"}) \o <<Lit(";")>>
OnClickNotifRepl ==
    <<"testNotif", ".", "onclick", SP, "=", SP, "(", ")", SP, "=>", SP, "{">>

\* testNotif\.onerror\s*=\s*\(e\)\s*=>\s*console\.error\([^)]*\);
OnErrorPat ==
    NotifAssign("onerror") \o Lits(<<"(", "e", ")">>) \o
    <<Star(WS), Lit("=>"), Star(WS)>> \o ConsoleCall({"error"}) \o
    <<Lit(";")>>

\* \n\n\n+
BlankLinesPat == <<Lit(NL), Lit(NL), Plus({NL})>>

\* lines 24-39, in their order
ConsoleLogRules ==
    <<Delete(StandalonePat),
      Delete(ShouldLogPat),
      Rule(OnClickPat, 0, OnClickRepl),
      Delete(ThenPat),
      Rule(OnShowPat, 0, OnShowRepl),
      Rule(OnClickNotifPat, 0, OnClickNotifRepl),
      Delete(OnErrorPat),
      Rule(BlankLinesPat, 0, <<NL, NL>>)>>

\* the text remove_console_logs computes from the text it read
ConsoleLogsRemoved(content) == ApplyRules(ConsoleLogRules, content, 1)

(***************************************************************************)
(* Paths. A path is the sequence of its parts; a file-name fragment the    *)
(* script looks for is found in it as a contiguous run (Python's `in`).    *)
(***************************************************************************)
BASE_DIR == <<"src">>

files_to_process ==
    << <<"app", "/", "dashboard", "/", "tokens", "/", "page.tsx">>,
       <<"app", "/", "dashboard", "/", "tokens", "/", "token-details-modal.tsx">>,
       <<"app", "/", "dashboard", "/", "tokens", "/", "tokens-table.tsx">>,
       <<"app", "/", "dashboard", "/", "trash", "/", "page.tsx">>,
       <<"components", "/", "additional-tags.tsx">>,
       <<"components", "/", "kbar", "/", "use-token-search.tsx">>,
       <<"contexts", "/", "ApiSettingsContext.tsx">>,
       <<"contexts", "/", "WalletTagsContext.tsx">>,
       <<"hooks", "/", "useAnalysisNotifications.ts">> >>

NFiles == Len(files_to_process)
Files == 1..NFiles

\* file_path = BASE_DIR / file_rel_path
FilePath(f) == BASE_DIR \o <<"/">> \o files_to_process[f]

\* frag in str(file_path)
Contains(path, frag) ==
    \E j \in 0..(Len(path) - Len(frag)) :
        SubSeq(path, j + 1, j + Len(frag)) = frag

\* a fragment that names the file and not its directory
PageFrag == <<"page.tsx">>
TokensPageFrag   == <<"tokens", "/", "page.tsx">>
TokensTableFrag  == <<"tokens-table.tsx">>
DetailsModalFrag == <<"token-details-modal.tsx">>
AdditionalFrag   == <<"additional-tags.tsx">>
WalletFrag       == <<"WalletTagsContext.tsx">>

(***************************************************************************)
(* fix_unused_imports: the substitutions of lines 55-83                    *)
(***************************************************************************)
\* ,\s*<name>\s*(?=[,}])
TrailingPat(name) ==
    <<Lit(","), Star(WS), Lit(name), Star(WS), Look({",", "}"})>>

\* <name>,\s*
LeadingPat(name) == <<Lit(name), Lit(","), Star(WS)>>

\* {\s*<name>,\s*
BraceLeadingPat(name) ==
    <<Lit("{"), Star(WS), Lit(name), Lit(","), Star(WS)>>

\* import\s+{\s*Tags\s*}\s+from\s+'lucide-react';\s*\n?
ImportTagsPat ==
    <<Lit("import"), Plus(WS), Lit("{"), Star(WS), Lit("Tags"), Star(WS),
      Lit("}"), Plus(WS), Lit("from"), Plus(WS), Lit("'lucide-react'"),
      Lit(";"), Star(WS), Opt({NL})>>

\* import\s+{\s*<imp>\s*}\s+from[^;]+;\s*\n?
SoleImportPat(imp) ==
    <<Lit("import"), Plus(WS), Lit("{"), Star(WS), Lit(imp), Star(WS),
      Lit("}"), Plus(WS), Lit("from"), Plus(NotSemi), Lit(";"), Star(WS),
      Opt({NL})>>

\* const\s+\[<v>,\s+<setter>\]\s+=\s+useState\([^)]*\);\s*\n?
StateDeclPat(v, setter) ==
    <<Lit("const"), Plus(WS), Lit("["), Lit(v), Lit(","), Plus(WS),
      Lit(setter), Lit("]"), Plus(WS), Lit("="), Plus(WS), Lit("useState"),
      Lit("("), Star(NotRParen), Lit(")"), Lit(";"), Star(WS), Opt({NL})>>

imports_to_remove ==
    <<"Popover", "PopoverContent", "PopoverTrigger", "Checkbox", "Label">>

\* the three statements of the loop body (lines 63-65) for one import
RemoveImport(imp) ==
    <<Delete(TrailingPat(imp)), Delete(LeadingPat(imp)),
      Delete(SoleImportPat(imp))>>

RECURSIVE RemoveImports(_)
\* the loop of lines 62-65 over imports_to_remove, from the j-th on
RemoveImports(j) ==
    IF j > Len(imports_to_remove) THEN <<>>
    ELSE RemoveImport(imports_to_remove[j]) \o RemoveImports(j + 1)

\* lines 56-69
TokensTableImports ==
    <<Delete(ImportTagsPat),
      Delete(TrailingPat("Tags")),
      Rule(BraceLeadingPat("Tags"), 0, <<"{", SP>>)>>
    \o RemoveImports(1) \o
    <<Delete(StateDeclPat("isDeleting", "setIsDeleting")),
      Delete(StateDeclPat("isLoadingDetails", "setIsLoadingDetails"))>>

\* lines 73-74
DetailsModalImports ==
    <<Delete(TrailingPat("X")),
      Rule(BraceLeadingPat("X"), 0, <<"{", SP>>)>>

\* lines 79-83
AdditionalTagsImports ==
    <<Delete(TrailingPat("onTagsChange")),
      Delete(LeadingPat("onTagsChange")),
      Delete(StateDeclPat("isLoading", "setIsLoading"))>>

\* the statements under  if frag in str(file_path):
When(path, frag, rules) == IF Contains(path, frag) THEN rules ELSE <<>>

\* the statements fix_unused_imports executes for path (lines 55, 72, 77)
UnusedImportRules(path) ==
    When(path, TokensTableFrag, TokensTableImports)
    \o When(path, DetailsModalFrag, DetailsModalImports)
    \o When(path, AdditionalFrag, AdditionalTagsImports)

\* the text fix_unused_imports computes from the text it read
UnusedImportsFixed(path, content) ==
    ApplyRules(UnusedImportRules(path), content, 1)

(***************************************************************************)
(* fix_hook_dependencies: the substitutions of lines 99-131                *)
(***************************************************************************)
\* setPollsSinceLastActive\(pollsSinceLastActive \+ 1\)
PollsPat ==
    Lits(<<"setPollsSinceLastActive", "(", "pollsSinceLastActive", SP, "+",
           SP, "1", ")">>)
PollsRepl ==
    <<"setPollsSinceLastActive", "(", "(", "prev", ")", SP, "=>", SP, "prev",
      SP, "+", SP, "1", ")">>

\* useMemo\(\(\)\s*=>\s*\{[^}]+return\s+columns;[\s\n]+},\s*
\*     \[(onDelete|sortedData)\]\)
UseMemoPat ==
    Lits(<<"useMemo", "(">>) \o ArrowHead \o
    <<Lit("{"), Plus(NotRBrace), Lit("return"), Plus(WS), Lit("columns"),
      Lit(";"), Plus(WS), Lit("}"), Lit(","), Star(WS), Lit("["),
      Rep({"onDelete", "sortedData"}, 1, 1), Lit("]"), Lit(")")>>
\* the element of UseMemoPat that group 1 encloses
UseMemoGroup == Len(UseMemoPat) - 2
\* useMemo(() => {\n    return columns;\n  }, [\1, handleDelete])
UseMemoRepl ==
    <<"useMemo", "(", "(", ")", SP, "=>", SP, "{", NL, SP, SP, SP, SP,
      "return", SP, "columns", ";", NL, SP, SP, "}", ",", SP, "[", G1, ",",
      SP, "handleDelete", "]", ")">>

\* useEffect\(\(\)\s*=>\s*\{[\s\n]+
EffectHead ==
    Lits(<<"useEffect", "(">>) \o ArrowHead \o <<Lit("{"), Plus(WS)>>

\* useEffect\(\(\)\s*=>\s*\{[\s\n]+checkBotTag\(\);[\s\n]+},\s*\[\]\)
BotTagPat ==
    EffectHead \o Lits(<<"checkBotTag", "(", ")", ";">>) \o
    <<Plus(WS), Lit("}"), Lit(","), Star(WS), Lit("["), Lit("]"), Lit(")")>>
\* useEffect(() => {\n    checkBotTag();\n  }, [checkBotTag])
BotTagRepl ==
    <<"useEffect", "(", "(", ")", SP, "=>", SP, "{", NL, SP, SP, SP, SP,
      "checkBotTag", "(", ")", ";", NL, SP, SP, "}", ",", SP, "[",
      "checkBotTag", "]", ")">>

\* useEffect\(\(\)\s*=>\s*\{[\s\n]+if\s*\([^)]+\)\s*\{[\s\n]+fetchTags\(\);
\*     [\s\n]+}[\s\n]+},\s*\[([^\]]+)\]\)
FetchTagsPat ==
    EffectHead \o
    <<Lit("if"), Star(WS), Lit("("), Plus(NotRParen), Lit(")"), Star(WS),
      Lit("{"), Plus(WS)>> \o
    Lits(<<"fetchTags", "(", ")", ";">>) \o
    <<Plus(WS), Lit("}"), Plus(WS), Lit("}"), Lit(","), Star(WS), Lit("["),
      Plus(NotRBracket), Lit("]"), Lit(")")>>
\* the element of FetchTagsPat that group 1 encloses: the only parenthesis
\* that is not escaped is the one around [^\]]+
FetchTagsGroup == Len(FetchTagsPat) - 2
\* useEffect(() => {\n    if (\1) {\n      fetchTags();\n    }\n  },
\*     [\1, fetchTags])
FetchTagsRepl ==
    <<"useEffect", "(", "(", ")", SP, "=>", SP, "{", NL, SP, SP, SP, SP,
      "if", SP, "(", G1, ")", SP, "{", NL, SP, SP, SP, SP, SP, SP,
      "fetchTags", "(", ")", ";", NL, SP, SP, SP, SP, "}", NL, SP, SP, "}",
      ",", SP, "[", G1, ",", SP, "fetchTags", "]", ")">>

\* the statements fix_hook_dependencies executes for path
\* (lines 99, 108, 117, 125)
HookDependencyRules(path) ==
    When(path, TokensPageFrag, <<Rule(PollsPat, 0, PollsRepl)>>)
    \o When(path, TokensTableFrag,
            <<Rule(UseMemoPat, UseMemoGroup, UseMemoRepl)>>)
    \o When(path, AdditionalFrag, <<Rule(BotTagPat, 0, BotTagRepl)>>)
    \o When(path, WalletFrag,
            <<Rule(FetchTagsPat, FetchTagsGroup, FetchTagsRepl)>>)

\* the text fix_hook_dependencies computes from the text it read
HookDependenciesFixed(path, content) ==
    ApplyRules(HookDependencyRules(path), content, 1)

(***************************************************************************)
(* File contents: the code shapes the substitutions were written for       *)
(***************************************************************************)
Indent(n) == [j \in 1..n |-> SP]

\* f();
Code == <<"f", "(", ")", ";", NL>>
\* an empty line after a line's end
Blank == <<NL, NL>>
\*   console.log(a);
LogLine == <<SP, SP, "console", ".", "log", "(", "a", ")", ";", NL>>
\* if (shouldLog()) { console.log(a); }
ShouldLogLine ==
    <<"if", SP, "(", "shouldLog", "(", ")", ")", SP, "{", SP, "console", ".",
      "log", "(", "a", ")", ";", SP, "}", NL>>
\* onClick={() => console.log(a)}
OnClickLog ==
    <<"onClick", "=", "{", "(", ")", SP, "=>", SP, "console", ".", "log",
      "(", "a", ")", "}", NL>>
\* f().then(() => console.log(a));
ThenLog ==
    <<"f", "(", ")", ".", "then", "(", "(", ")", SP, "=>", SP, "console",
      ".", "log", "(", "a", ")", ")", ";", NL>>
\* testNotif.onshow = () => console.log(a);
NotifShow ==
    <<"testNotif", ".", "onshow", SP, "=", SP, "(", ")", SP, "=>", SP,
      "console", ".", "log", "(", "a", ")", ";", NL>>
\* testNotif.onclick = () => { console.log(a); f(); };
NotifClick ==
    <<"testNotif", ".", "onclick", SP, "=", SP, "(", ")", SP, "=>", SP, "{",
      SP, "console", ".", "log", "(", "a", ")", ";", SP, "f", "(", ")", ";",
      SP, "}", ";", NL>>
\* testNotif.onerror = (e) => console.error(e);
NotifError ==
    <<"testNotif", ".", "onerror", SP, "=", SP, "(", "e", ")", SP, "=>", SP,
      "console", ".", "error", "(", "e", ")", ";", NL>>
\* import { Tags } from 'lucide-react';
ImportTags ==
    <<"import", SP, "{", SP, "Tags", SP, "}", SP, "from", SP,
      "'lucide-react'", ";", NL>>
\* import { Tags, X, Popover, a } from 'ui';
ImportList ==
    <<"import", SP, "{", SP, "Tags", ",", SP, "X", ",", SP, "Popover", ",",
      SP, "a", SP, "}", SP, "from", SP, "'ui'", ";", NL>>
\* ({ a, onTagsChange })
Props == <<"(", "{", SP, "a", ",", SP, "onTagsChange", SP, "}", ")", NL>>
\* const [v, setter] = useState(a);
StateDecl(v, setter) ==
    <<"const", SP, "[", v, ",", SP, setter, "]", SP, "=", SP, "useState",
      "(", "a", ")", ";", NL>>
\* setPollsSinceLastActive(pollsSinceLastActive + 1);
PollsLine ==
    <<"setPollsSinceLastActive", "(", "pollsSinceLastActive", SP, "+", SP,
      "1", ")", ";", NL>>
\* useMemo(() => {\n    <stmts>return columns;\n  }, [<deps>]);
MemoBlock(stmts, deps) ==
    <<"useMemo", "(", "(", ")", SP, "=>", SP, "{", NL>> \o Indent(4) \o
    stmts \o <<"return", SP, "columns", ";", NL>> \o Indent(2) \o
    <<"}", ",", SP, "[">> \o deps \o <<"]", ")", ";", NL>>
\* const columns = f();  and the indentation of the next line
ColumnsStmt ==
    <<"const", SP, "columns", SP, "=", SP, "f", "(", ")", ";", NL>> \o
    Indent(4)
\* useEffect(() => {\n    checkBotTag();\n  }, [<deps>]);
BotTagEffect(deps) ==
    <<"useEffect", "(", "(", ")", SP, "=>", SP, "{", NL>> \o Indent(4) \o
    <<"checkBotTag", "(", ")", ";", NL>> \o Indent(2) \o
    <<"}", ",", SP, "[">> \o deps \o <<"]", ")", ";", NL>>
\* useEffect(() => {\n    if (<cond>) {\n      fetchTags();\n    }\n  },
\*     [<deps>]);
WalletEffect(cond, deps) ==
    <<"useEffect", "(", "(", ")", SP, "=>", SP, "{", NL>> \o Indent(4) \o
    <<"if", SP, "(">> \o cond \o <<")", SP, "{", NL>> \o Indent(6) \o
    <<"fetchTags", "(", ")", ";", NL>> \o Indent(4) \o <<"}", NL>> \o
    Indent(2) \o <<"}", ",", SP, "[">> \o deps \o <<"]", ")", ";", NL>>

\* the identifiers a condition or a dependency list is drawn from
Idents == {"a", "b"}

Fragments ==
    {Code, Blank, LogLine, ShouldLogLine, OnClickLog, ImportList, Props,
     StateDecl("isLoading", "setIsLoading"), PollsLine,
     MemoBlock(ColumnsStmt, <<"onDelete">>), MemoBlock(<<>>, <<"sortedData">>),
     BotTagEffect(<<>>)}
        \cup {WalletEffect(<<c>>, <<d>>) : c \in {"a"}, d \in Idents}

\* how many fragments a file of the one-file runs holds at most
MaxFrags == 1

RECURSIVE TextsOf(_)
\* the texts of at most n fragments
TextsOf(n) ==
    IF n = 0 THEN {<<>>}
    ELSE LET shorter == TextsOf(n - 1)
         IN  shorter \cup {t \o fr : t \in shorter, fr \in Fragments}

Texts == TextsOf(MaxFrags)

\* what each target holds in the runs over the whole list
Sample ==
    << ShouldLogLine \o PollsLine \o Code,
       ImportList \o LogLine,
       ImportTags \o StateDecl("isDeleting", "setIsDeleting") \o LogLine
           \o MemoBlock(ColumnsStmt, <<"onDelete">>),
       LogLine \o Blank \o Code,
       Props \o StateDecl("isLoading", "setIsLoading") \o BotTagEffect(<<>>),
       Code,
       ThenLog \o OnClickLog,
       WalletEffect(<<"a">>, <<"b">>),
       NotifShow \o NotifClick \o NotifError >>

(***************************************************************************)
(* The run of the script                                                   *)
(***************************************************************************)
VARIABLES
    exists,       \* exists[f]: the target f is a file on disk
    disk,         \* disk[f]: the text of the target f (<<>> when missing)
    pc,           \* where the run is
    i,            \* the index in files_to_process of the current target
    fixed,        \* `fixed` of the main loop
    fixed_count,  \* `fixed_count`
    output,       \* the lines printed so far by this run
    original,     \* `original` of the pass called last
    content,      \* `content` of the pass called last, at its comparison
    run,          \* 1 in the first run of the script, 2 in the second
    start,        \* the disk when this run started
    writes,       \* writes[f]: how often this run opened f for writing
    calls         \* calls[f]: how many passes this run called on f

vars == <<exists, disk, pc, i, fixed, fixed_count, output, original, content,
          run, start, writes, calls>>

Line(kind, f, n) == [kind |-> kind, file |-> f, n |-> n]
\* print("Fixing lint issues...")
Banner == Line("banner", 0, 0)

\* the state after lines 152-153, whatever the disk holds
Started(d) ==
    /\ pc = "loop"
    /\ i = 1
    /\ fixed = FALSE
    /\ fixed_count = 0
    /\ output = <<Banner>>
    /\ original = <<>>
    /\ content = <<>>
    /\ start = d
    /\ writes = [f \in Files |-> 0]
    /\ calls = [f \in Files |-> 0]

\* any of the targets may be missing; those present hold their sample
InitList ==
    /\ exists \in [Files -> BOOLEAN]
    /\ disk = [f \in Files |-> IF exists[f] THEN Sample[f] ELSE <<>>]

\* one target is present, and holds any of the texts
InitOne ==
    \E f \in Files, t \in Texts :
        /\ exists = [g \in Files |-> g = f]
        /\ disk = [g \in Files |-> IF g = f THEN t ELSE <<>>]

Init ==
    /\ InitList \/ InitOne
    /\ run = 1
    /\ Started(disk)

\* the target of this iteration is about to be read by a pass
AtPass(p) ==
    /\ i <= NFiles
    /\ exists[i]
    /\ pc = p

\* a loop that leaves at the first missing target (break for continue)
SkipMissingBreaks ==
    /\ pc = "loop"
    /\ i <= NFiles
    /\ ~exists[i]
    /\ output' = Append(output, Line("skipping", i, 0))
    /\ i' = NFiles + 1
    /\ UNCHANGED <<exists, disk, pc, fixed, fixed_count, original, content,
                   run, start, writes, calls>>

\* lines 157-159
SkipMissing ==
    /\ pc = "loop"
    /\ i <= NFiles
    /\ ~exists[i]
    /\ output' = Append(output, Line("skipping", i, 0))
    /\ i' = i + 1
    /\ UNCHANGED <<exists, disk, pc, fixed, fixed_count, original, content,
                   run, start, writes, calls>>

\* passes that work on the text the pass before them read, not on the file
ComputedFromOriginal(p) ==
    CASE p = "loop"    -> ConsoleLogsRemoved(disk[i])
      [] p = "imports" -> UnusedImportsFixed(FilePath(i), original)
      [] p = "hooks"   -> HookDependenciesFixed(FilePath(i), original)

\* the text the pass at p computes from the text of the current target
Computed(p) ==
    CASE p = "loop"    -> ConsoleLogsRemoved(disk[i])
      [] p = "imports" -> UnusedImportsFixed(FilePath(i), disk[i])
      [] p = "hooks"   -> HookDependenciesFixed(FilePath(i), disk[i])

\* a file opened with 'a': the text is added to what the file holds
WrittenAtEnd(new) ==
    /\ disk' = [disk EXCEPT ![i] = @ \o new]
    /\ writes' = [writes EXCEPT ![i] = @ + 1]

\* open(file_path, 'w') and f.write(content) succeed
Written(new) ==
    /\ disk' = [disk EXCEPT ![i] = new]
    /\ writes' = [writes EXCEPT ![i] = @ + 1]

\* the lengths of the first parts of a text that end with a line, the empty
\* part among them
LineEnds(new) == {n \in 0..(Len(new) - 1) : n = 0 \/ new[n] = NL}

\* open(file_path, 'w') raises and the file is as it was, or f.write raises
\* after the open truncated the file: the file is empty or holds the first
\* lines of the text
WriteFails(new) ==
    \/ UNCHANGED <<disk, writes>>
    \/ \E n \in LineEnds(new) :
          /\ disk' = [disk EXCEPT ![i] = SubSeq(new, 1, n)]
          /\ writes' = [writes EXCEPT ![i] = @ + 1]

\* an exception that a  finally  answers with the summary line
RaisedThenSummary ==
    /\ pc' = "crashed"
    /\ output' = Append(output, Line("summary", 0, fixed_count))
    /\ UNCHANGED <<exists, i, fixed, fixed_count, run, start>>

\* an exception leaves the pass and the main loop: nothing catches it
Raised ==
    /\ pc' = "crashed"
    /\ UNCHANGED <<exists, i, fixed, fixed_count, output, run, start>>

\* a pass that writes the text back without comparing it
PassBodyAlwaysWrites(p, before, next) ==
    LET new == Computed(p)
        changed == new # disk[i]
    IN  /\ original' = disk[i]
        /\ content' = new
        /\ calls' = [calls EXCEPT ![i] = @ + 1]
        /\ Written(new)
        /\ fixed' = (before \/ changed)
        /\ pc' = next
        /\ UNCHANGED <<exists, i, fixed_count, output, run, start>>

\* A pass from its read to its return: it writes when the text it computed
\* differs from the text it read, and returns whether it wrote. The write
\* may raise.
PassBody(p, before, next) ==
    LET new == Computed(p)
        changed == new # disk[i]
    IN  /\ original' = disk[i]
        /\ content' = new
        /\ calls' = [calls EXCEPT ![i] = @ + 1]
        /\ \/ /\ IF changed THEN Written(new) ELSE UNCHANGED <<disk, writes>>
              /\ fixed' = (before \/ changed)
              /\ pc' = next
              /\ UNCHANGED <<exists, i, fixed_count, output, run, start>>
           \/ /\ changed
              /\ WriteFails(new)
              /\ Raised

\* lines 161-162 and 16-45
remove_console_logs ==
    /\ AtPass("loop")
    /\ PassBody("loop", FALSE, "imports")

\* lines 163 and 47-89
fix_unused_imports ==
    /\ AtPass("imports")
    /\ PassBody("imports", fixed, "hooks")

\* lines 164 and 91-137
fix_hook_dependencies ==
    /\ AtPass("hooks")
    /\ PassBody("hooks", fixed, "report")

\* a count of the targets processed, changed or not
ReportCountsAll ==
    /\ pc = "report"
    /\ output' = Append(output, Line(IF fixed THEN "ok" ELSE "skip", i, 0))
    /\ fixed_count' = fixed_count + 1
    /\ i' = i + 1
    /\ pc' = "loop"
    /\ UNCHANGED <<exists, disk, fixed, original, content, run, start, writes,
                   calls>>

\* lines 166-170
Report ==
    /\ pc = "report"
    /\ output' = Append(output, Line(IF fixed THEN "ok" ELSE "skip", i, 0))
    /\ fixed_count' = IF fixed THEN fixed_count + 1 ELSE fixed_count
    /\ i' = i + 1
    /\ pc' = "loop"
    /\ UNCHANGED <<exists, disk, fixed, original, content, run, start, writes,
                   calls>>

\* lines 172-173
Summary ==
    /\ pc = "loop"
    /\ i > NFiles
    /\ output' = output \o <<Line("summary", 0, fixed_count), Line("hint", 0, 0)>>
    /\ pc' = "done"
    /\ UNCHANGED <<exists, disk, i, fixed, fixed_count, original, content,
                   run, start, writes, calls>>

\* open(file_path, 'r') or f.read() raises (lines 18-19, 49-50, 93-94)
ReadError ==
    \E p \in {"loop", "imports", "hooks"} :
        /\ AtPass(p)
        /\ calls' = [calls EXCEPT ![i] = @ + 1]
        /\ Raised
        /\ UNCHANGED <<disk, original, content, writes>>

\* the script is started a second time, after a first run that completed
\* (lines 152-153)
Rerun ==
    /\ pc = "done"
    /\ run = 1
    /\ run' = 2
    /\ pc' = "loop"
    /\ i' = 1
    /\ fixed' = FALSE
    /\ fixed_count' = 0
    /\ output' = <<Banner>>
    /\ original' = <<>>
    /\ content' = <<>>
    /\ start' = disk
    /\ writes' = [f \in Files |-> 0]
    /\ calls' = [f \in Files |-> 0]
    /\ UNCHANGED <<exists, disk>>

Next ==
    \/ SkipMissing
    \/ remove_console_logs
    \/ fix_unused_imports
    \/ fix_hook_dependencies
    \/ Report
    \/ Summary
    \/ ReadError
    \/ Rerun

Spec == Init /\ [][Next]_vars

(***************************************************************************)
(* Properties                                                              *)
(***************************************************************************)
\* the three passes on a text, one after the other, in memory
ProcessText(path, t) ==
    HookDependenciesFixed(path,
        UnusedImportsFixed(path, ConsoleLogsRemoved(t)))

\* all three passes have returned for the target f in this run
Processed(f) == calls[f] = 3 /\ (f < i \/ pc = "report")

\* the targets this run changed
Changed == {f \in Files : disk[f] # start[f]}

HasLine(kind, f) == \E j \in 1..Len(output) : output[j] = Line(kind, f, 0)

\* C1: once the three passes have run on a target, the file was opened for
\* writing if and only if its text differs from the text it held before the
\* first pass.
WriteIffChanged ==
    \A f \in Files : Processed(f) => (writes[f] > 0 <=> disk[f] # start[f])

\* a target that two passes changed has been processed
WriteIffChangedWitness ==
    /\ pc = "report"
    /\ writes[i] >= 2
    /\ disk[i] # start[i]

\* C2: a second run after a complete first run changes no file: no pass
\* writes, and the summary reports 0 files.
SecondRunChangesNothing ==
    run = 2 =>
        /\ disk = start
        /\ \A f \in Files : writes[f] = 0
        /\ pc = "done" => output[Len(output) - 1] = Line("summary", 0, 0)

\* C3: a missing target gets its "Skipping" line, no pass is called on it and
\* it is not created; every target that exists is processed by all three
\* passes wherever it stands in the list; a missing target never ends the
\* run.
MissingFileTolerance ==
    /\ pc = "crashed" => exists[i]
    /\ \A f \in Files :
          (f < i \/ pc = "done") =>
              IF exists[f]
              THEN calls[f] = 3 /\ ~HasLine("skipping", f)
              ELSE /\ HasLine("skipping", f)
                   /\ calls[f] = 0
                   /\ writes[f] = 0
                   /\ disk[f] = <<>>

\* a complete run over a list with a missing target between two present ones
MissingFileWitness ==
    /\ pc = "done"
    /\ \E f, g, h \in Files :
          f < g /\ g < h /\ exists[f] /\ ~exists[g] /\ exists[h]

\* the rules each pass holds for a target, by the target's place in the list
ImportRulesOf(f) ==
    CASE f = 2 -> DetailsModalImports
      [] f = 3 -> TokensTableImports
      [] f = 5 -> AdditionalTagsImports
      [] OTHER -> <<>>
HookRulesOf(f) ==
    CASE f = 1 -> <<Rule(PollsPat, 0, PollsRepl)>>
      [] f = 3 -> <<Rule(UseMemoPat, UseMemoGroup, UseMemoRepl)>>
      [] f = 5 -> <<Rule(BotTagPat, 0, BotTagRepl)>>
      [] f = 8 -> <<Rule(FetchTagsPat, FetchTagsGroup, FetchTagsRepl)>>
      [] OTHER -> <<>>

\* C4: fix_unused_imports and fix_hook_dependencies apply to a target only
\* the rules of that target: the rules of another file never change its
\* text, and a target that no fragment names is left as it was read.
FileNameGating ==
    /\ pc = "hooks" =>
          /\ content = ApplyRules(ImportRulesOf(i), original, 1)
          /\ i \notin {2, 3, 5} => disk[i] = original
    /\ pc = "report" =>
          /\ content = ApplyRules(HookRulesOf(i), original, 1)
          /\ i \notin {1, 3, 5, 8} => disk[i] = original

\* trash/page.tsx holds the increment that the tokens/page.tsx rule rewrites,
\* and fix_hook_dependencies has returned
FileNameGatingWitness ==
    /\ pc = "report"
    /\ i = 4
    /\ original = PollsLine
    /\ disk[i] = PollsLine

\* C5 as stated: at most one write per target and run, and no text other
\* than the initial and the final one is ever on disk.
AtMostOneWrite ==
    /\ \A f \in Files : writes[f] <= 1
    /\ pc \in {"imports", "hooks"} =>
          disk[i] \in {start[i], ProcessText(FilePath(i), start[i])}

\* C5 as amended: at most three writes per target and run, at most one by
\* each pass, and each write replaces the whole content with the text that
\* pass computed.
AtMostOneWritePerPass ==
    /\ \A f \in Files : writes[f] <= calls[f] /\ calls[f] <= 3
    /\ pc \in {"imports", "hooks", "report"} => disk[i] = content

\* all three passes wrote the target
ThreeWritesWitness ==
    /\ pc = "report"
    /\ writes[i] = 3

\* C6: when a read or a write raises on target i, the run is over: nothing
\* after i was read or written, there is no "[OK]" or "[SKIP]" line for i and
\* no summary line, and the failing step left every other target as it was.
CrashEndsRun ==
    /\ [](pc = "crashed" =>
            /\ \A f \in Files :
                  f > i => calls[f] = 0 /\ writes[f] = 0 /\ disk[f] = start[f]
            /\ ~HasLine("ok", i) /\ ~HasLine("skip", i)
            /\ \A j \in 1..Len(output) : output[j].kind # "summary"
            /\ ~ENABLED Next)
    /\ [][pc' = "crashed" =>
            \A f \in Files \ {i} : disk'[f] = disk[f] /\ exists'[f] = exists[f]]_vars

\* a failure between a target the run changed and a target still to come
CrashWitness ==
    /\ pc = "crashed"
    /\ \E f, h \in Files : f < i /\ i < h /\ writes[f] > 0 /\ exists[h]

\* the line the run owes to the target f
LineOf(f) ==
    Line(IF ~exists[f] THEN "skipping"
         ELSE IF disk[f] # start[f] THEN "ok" ELSE "skip", f, 0)

\* C7: a run without failure prints, after the banner, one line per target
\* in list order (skipping / ok / skip as the target is missing / changed /
\* unchanged), then the summary with the number of targets changed.
ReportLines ==
    pc = "done" =>
        /\ Len(output) = NFiles + 3
        /\ output[1] = Banner
        /\ \A f \in Files : output[f + 1] = LineOf(f)
        /\ output[NFiles + 2] = Line("summary", 0, Cardinality(Changed))
        /\ output[NFiles + 3] = Line("hint", 0, 0)

\* a complete run that printed all three kinds of line
ReportLinesWitness ==
    /\ pc = "done"
    /\ \E f, g, h \in Files :
          /\ output[f + 1].kind = "skipping"
          /\ output[g + 1].kind = "ok"
          /\ output[h + 1].kind = "skip"

\* , fetchTags  and  , handleDelete  as a dependency list gets them
AndFetchTags == <<",", SP, "fetchTags">>
AndHandleDelete == <<",", SP, "handleDelete">>

\* C8: on  useEffect(() => { if (C) { fetchTags(); } }, [D])  the rule of
\* WalletTagsContext.tsx changes the dependency list to [D, fetchTags] and
\* nothing else: the condition C is kept.
FetchTagsKeepsCondition ==
    \A c, d \in Idents :
        (pc = "report" /\ i = 8 /\ original = WalletEffect(<<c>>, <<d>>))
            => disk[i] = WalletEffect(<<c>>, <<d>> \o AndFetchTags)

\* C9: the useMemo rule of tokens-table.tsx inserts handleDelete after the
\* identifier of the dependency list and changes nothing else: the
\* statements before  return columns;  are kept.
UseMemoKeepsBody ==
    \A stmts \in {<<>>, ColumnsStmt}, d \in {"onDelete", "sortedData"} :
        (pc = "report" /\ i = 3 /\ original = MemoBlock(stmts, <<d>>))
            => disk[i] = MemoBlock(stmts, <<d>> \o AndHandleDelete)

\* C10: after the three passes, each reading the file and writing it back
\* when it changed the text, the file holds the text that the three
\* transformations give in memory, one after the other, from the text the
\* file held before.
PassesCompose ==
    pc = "report" => disk[i] = ProcessText(FilePath(i), start[i])

\* the first pass and a later one both changed the target
PassesComposeWitness ==
    /\ pc = "report"
    /\ ConsoleLogsRemoved(start[i]) # start[i]
    /\ disk[i] # ConsoleLogsRemoved(start[i])

====
